---- MODULE Spec2Model ----
(***************************************************************************)
(* Type-tagged serialization of pydantic models (demo.serialization) and   *)
(* the Update envelope (demo.models).                                      *)
(*                                                                         *)
(* Python values are tagged records.  A str is a sequence of characters,   *)
(* a dict is an ordered sequence of <<key, value>> pairs, a JSON document  *)
(* is a str whose content is a sequence of JSON tokens.  A dict object is   *)
(* mutable; the caller holds one in its variable dct.  Model objects are   *)
(* handed from call to call.                                               *)
(***************************************************************************)
EXTENDS Integers, Sequences, FiniteSets, TLC

\* Deepest nesting of Update envelopes the caller builds.
MaxEnvelopeDepth == 1

(***************************************************************************)
(* Python values                                                           *)
(***************************************************************************)
None == [k |-> "None"]
Str(s) == [k |-> "str", s |-> s]
JsonStr(toks) == [k |-> "str", json |-> toks]
Bytes(toks) == [k |-> "bytes", json |-> toks, valid |-> TRUE]
BadBytes == [k |-> "bytes", json |-> <<>>, valid |-> FALSE]
Float(n) == [k |-> "float", nan |-> FALSE, n |-> n]
NaN == [k |-> "float", nan |-> TRUE, n |-> 0]
DateTime(y, mo, d) == [k |-> "datetime", y |-> y, mo |-> mo, d |-> d]
Decimal(neg, coef, scale) == [k |-> "Decimal", neg |-> neg, coef |-> coef, scale |-> scale]
Dict(items) == [k |-> "dict", items |-> items]
Model(cls, fields) == [k |-> "model", cls |-> cls, fields |-> fields]

IsPlainStr(v) == v.k = "str" /\ "s" \in DOMAIN v
IsJsonStr(v) == v.k = "str" /\ "json" \in DOMAIN v

(***************************************************************************)
(* dict operations                                                         *)
(***************************************************************************)
Keys(items) == {items[i][1] : i \in 1..Len(items)}
HasKey(items, key) == key \in Keys(items)
Get(items, key) == items[CHOOSE i \in 1..Len(items) : items[i][1] = key][2]
Without(items, key) == SelectSeq(items, LAMBDA p : p[1] # key)
SetItem(items, key, v) ==
    IF HasKey(items, key)
    THEN [i \in 1..Len(items) |-> IF items[i][1] = key THEN <<key, v>> ELSE items[i]]
    ELSE Append(items, <<key, v>>)

(***************************************************************************)
(* Text forms of datetime and Decimal                                      *)
(***************************************************************************)
Digits == <<"0", "1", "2", "3", "4", "5", "6", "7", "8", "9">>
DigitChar(d) == Digits[d + 1]
IsDigit(c) == \E d \in 0..9 : Digits[d + 1] = c
DigitVal(c) == CHOOSE d \in 0..9 : Digits[d + 1] = c
AllDigits(s) == \A i \in 1..Len(s) : IsDigit(s[i])

RECURSIVE DigitsOf(_)
DigitsOf(n) == IF n < 10 THEN <<DigitChar(n)>>
               ELSE DigitsOf(n \div 10) \o <<DigitChar(n % 10)>>

RECURSIVE Zeros(_)
Zeros(n) == IF n <= 0 THEN <<>> ELSE <<"0">> \o Zeros(n - 1)

Pad(n, w) == Zeros(w - Len(DigitsOf(n))) \o DigitsOf(n)

RECURSIVE ParseNat(_)
ParseNat(s) == IF Len(s) = 0 THEN 0
               ELSE ParseNat(SubSeq(s, 1, Len(s) - 1)) * 10 + DigitVal(s[Len(s)])

\* datetime.isoformat() of a naive datetime at midnight: YYYY-MM-DDT00:00:00
isoformat(dt) ==
    Pad(dt.y, 4) \o <<"-">> \o Pad(dt.mo, 2) \o <<"-">> \o Pad(dt.d, 2)
        \o <<"T", "0", "0", ":", "0", "0", ":", "0", "0">>

IsIsoDateTime(s) ==
    /\ Len(s) = 19
    /\ s[5] = "-" /\ s[8] = "-" /\ s[11] = "T" /\ s[14] = ":" /\ s[17] = ":"
    /\ AllDigits(SubSeq(s, 1, 4)) /\ AllDigits(SubSeq(s, 6, 7))
    /\ AllDigits(SubSeq(s, 9, 10)) /\ AllDigits(SubSeq(s, 12, 13))
    /\ AllDigits(SubSeq(s, 15, 16)) /\ AllDigits(SubSeq(s, 18, 19))
    /\ ParseNat(SubSeq(s, 6, 7)) \in 1..12
    /\ ParseNat(SubSeq(s, 9, 10)) \in 1..31
    /\ ParseNat(SubSeq(s, 12, 13)) = 0
    /\ ParseNat(SubSeq(s, 15, 16)) = 0
    /\ ParseNat(SubSeq(s, 18, 19)) = 0

parse_datetime(s) ==
    DateTime(ParseNat(SubSeq(s, 1, 4)), ParseNat(SubSeq(s, 6, 7)), ParseNat(SubSeq(s, 9, 10)))

\* str(Decimal): sign, coefficient digits, the point `scale` digits from the right.
DecimalStr(d) ==
    LET ds == DigitsOf(d.coef)
        body == IF d.scale = 0 THEN ds
                ELSE IF Len(ds) > d.scale
                     THEN SubSeq(ds, 1, Len(ds) - d.scale) \o <<".">>
                              \o SubSeq(ds, Len(ds) - d.scale + 1, Len(ds))
                     ELSE <<"0", ".">> \o Zeros(d.scale - Len(ds)) \o ds
    IN  (IF d.neg THEN <<"-">> ELSE <<>>) \o body

PointAt(s) == IF \E i \in 1..Len(s) : s[i] = "."
              THEN CHOOSE i \in 1..Len(s) : s[i] = "."
              ELSE 0

IsDecimalStr(s) ==
    LET u == IF Len(s) > 0 /\ s[1] = "-" THEN Tail(s) ELSE s
        ds == SelectSeq(u, LAMBDA c : c # ".")
    IN  /\ Len(ds) > 0
        /\ AllDigits(ds)
        /\ Len(u) - Len(ds) <= 1

parse_decimal(s) ==
    LET neg == Len(s) > 0 /\ s[1] = "-"
        u == IF neg THEN Tail(s) ELSE s
        p == PointAt(u)
        ds == SelectSeq(u, LAMBDA c : c # ".")
    IN  Decimal(neg, ParseNat(ds), IF p = 0 THEN 0 ELSE Len(u) - p)

(***************************************************************************)
(* json.dumps / json.loads over token sequences                            *)
(***************************************************************************)
LBrace == [t |-> "{"]
RBrace == [t |-> "}"]
Colon == [t |-> ":"]
Comma == [t |-> ","]
KeyTok(key) == [t |-> "key", key |-> key]
Lit(v) == [t |-> "lit", v |-> v]

RECURSIVE Tokens(_)
RECURSIVE Members(_)
Members(items) ==
    IF Len(items) = 0 THEN <<>>
    ELSE <<KeyTok(items[1][1]), Colon>> \o Tokens(items[1][2])
            \o (IF Len(items) > 1 THEN <<Comma>> \o Members(Tail(items)) ELSE <<>>)

Tokens(v) == IF v.k = "dict" THEN <<LBrace>> \o Members(v.items) \o <<RBrace>>
             ELSE <<Lit(v)>>

json_dumps(dct) == JsonStr(Tokens(dct))

ParseFail == [ok |-> FALSE, v |-> None, next |-> 0]
Parsed(v, next) == [ok |-> TRUE, v |-> v, next |-> next]

RECURSIVE ParseValue(_, _)
RECURSIVE ParseMembers(_, _, _)
RECURSIVE ParseMembersRest(_, _, _)
\* after the member value r: a comma and the next member, or the closing brace
ParseMembersRest(toks, items, r) ==
    IF ~r.ok \/ r.next > Len(toks) THEN ParseFail
    ELSE IF toks[r.next].t = "," THEN ParseMembers(toks, r.next + 1, items)
    ELSE IF toks[r.next].t = "}" THEN Parsed(Dict(items), r.next + 1)
    ELSE ParseFail

ParseMember(toks, i, acc, r) ==
    ParseMembersRest(toks, IF r.ok THEN SetItem(acc, toks[i].key, r.v) ELSE acc, r)

ParseMembers(toks, i, acc) ==
    IF i + 1 > Len(toks) THEN ParseFail
    ELSE IF toks[i].t # "key" \/ toks[i + 1].t # ":" THEN ParseFail
    ELSE ParseMember(toks, i, acc, ParseValue(toks, i + 2))

ParseValue(toks, i) ==
    IF i > Len(toks) THEN ParseFail
    ELSE IF toks[i].t = "lit" THEN Parsed(toks[i].v, i + 1)
    ELSE IF toks[i].t = "{"
         THEN IF i + 1 <= Len(toks) /\ toks[i + 1].t = "}"
              THEN Parsed(Dict(<<>>), i + 2)
              ELSE ParseMembers(toks, i + 1, <<>>)
    ELSE ParseFail

(***************************************************************************)
(* Outcomes of a call: a returned value or a raised exception.             *)
(* same: the returned object is the very object that was passed in.        *)
(***************************************************************************)
Ok(v, same) == [raised |-> "", v |-> v, same |-> same]
Raise(e) == [raised |-> e, v |-> None, same |-> FALSE]
Returned(out) == out.raised = ""

\* the whole text must be one JSON value
Document(toks, r) == IF r.ok /\ r.next = Len(toks) + 1 THEN Ok(r.v, FALSE)
                     ELSE Raise("JSONDecodeError")

json_loads(data) ==
    IF data.k = "bytes" /\ ~data.valid THEN Raise("UnicodeDecodeError")
    ELSE IF data.k \notin {"str", "bytes"} THEN Raise("TypeError")
    ELSE IF "json" \notin DOMAIN data THEN Raise("JSONDecodeError")
    ELSE Document(data.json, ParseValue(data.json, 1))

(***************************************************************************)
(* The model classes of demo.models                                        *)
(***************************************************************************)
User == <<<<"name", "str">>, <<"date_of_birth", "datetime">>, <<"height", "float">>>>
Location == <<<<"name", "str">>, <<"latitude", "Decimal">>, <<"longitude", "Decimal">>>>
Address == <<<<"street", "str">>, <<"city", "str">>>>
Update == <<<<"model", "model">>>>

ModelClasses == {"User", "Location", "Address", "Update"}
FieldTypes(cls) == CASE cls = "User" -> User
                     [] cls = "Location" -> Location
                     [] cls = "Address" -> Address
                     [] cls = "Update" -> Update

\* model.__class__.__module__ and model.__class__.__qualname__
ClassModule(cls) == Str(<<"demo", ".", "models">>)
ClassQualname(cls) == Str(<<cls>>)

\* A dump that sends a Decimal through a float: four digits of the fraction are lost.
dump_field_float(type, v) ==
    CASE type = "datetime" -> Str(isoformat(v))
      [] type = "Decimal" ->
            IF v.scale >= 4 THEN Str(DecimalStr(Decimal(v.neg, v.coef \div 10000, v.scale - 4)))
            ELSE Str(DecimalStr(v))
      [] OTHER -> v

\* pydantic's JSON-mode dump of one field value
dump_field(type, v) ==
    CASE type = "datetime" -> Str(isoformat(v))
      [] type = "Decimal" -> Str(DecimalStr(v))
      [] OTHER -> v

\* pydantic's lax validation of one field value
FieldValid(type, v) ==
    CASE type = "str" -> IsPlainStr(v)
      [] type = "float" -> v.k = "float"
      [] type = "datetime" -> v.k = "datetime" \/ (IsPlainStr(v) /\ IsIsoDateTime(v.s))
      [] type = "Decimal" -> v.k = "Decimal" \/ (IsPlainStr(v) /\ IsDecimalStr(v.s))
      [] OTHER -> FALSE

validate_field(type, v) ==
    CASE type = "datetime" /\ v.k = "str" -> parse_datetime(v.s)
      [] type = "Decimal" /\ v.k = "str" -> parse_decimal(v.s)
      [] OTHER -> v

\* Python == on values; on models, BaseModel.__eq__ between two distinct objects.
RECURSIVE ValueEq(_, _)
ValueEq(a, b) ==
    IF a.k # b.k THEN FALSE
    ELSE IF a.k = "float" THEN ~a.nan /\ ~b.nan /\ a.n = b.n
    ELSE IF a.k = "model"
         THEN /\ a.cls = b.cls
              /\ Len(a.fields) = Len(b.fields)
              /\ \A i \in 1..Len(a.fields) :
                    /\ a.fields[i][1] = b.fields[i][1]
                    /\ ValueEq(a.fields[i][2], b.fields[i][2])
    ELSE a = b

(***************************************************************************)
(* Encoder                                                                 *)
(***************************************************************************)
RECURSIVE model_dump(_)
RECURSIVE serialize_model_to_dict(_)

\* models.py names the envelope's serializer serialize_model; serialization.py
\* defines the function as serialize_model_to_dict.
serialize_model(model) == serialize_model_to_dict(model)

model_dump(model) ==
    Dict([i \in 1..Len(model.fields) |->
            LET type == FieldTypes(model.cls)[i][2]
                v == model.fields[i][2]
            IN  <<model.fields[i][1],
                  IF type = "model" THEN serialize_model(v) ELSE dump_field(type, v)>>])

\* An encoder that writes the two reserved keys the wrong way round.
serialize_model_to_dict_swapped(model) ==
    LET dct == model_dump(model).items
        d1 == SetItem(dct, "__module__", ClassQualname(model.cls))
        d2 == SetItem(d1, "__qualname__", ClassModule(model.cls))
    IN  Dict(d2)

serialize_model_to_dict(model) ==
    LET dct == model_dump(model).items
        d1 == SetItem(dct, "__module__", ClassModule(model.cls))
        d2 == SetItem(d1, "__qualname__", ClassQualname(model.cls))
    IN  Dict(d2)

serialize_model_to_json_str(model) == json_dumps(serialize_model_to_dict(model))

\* pydantic's model_dump_json: the JSON text of the JSON-mode dump
model_dump_json(model) == json_dumps(model_dump(model))

(***************************************************************************)
(* The import system: importlib.import_module and getattr                  *)
(***************************************************************************)
\* Importable modules, as paths of name components.
Installed == {<<"demo">>, <<"demo", "serialization">>, <<"demo", "models">>}

\* The names bound in a module that a tree's __qualname__ is looked up among:
\* the classes models.py defines and the non-model names it imports.
OtherNames == {"datetime", "Decimal", "Annotated", "PlainSerializer", "PlainValidator",
               "serialize_model", "validate_model"}
Namespace(path) == IF path = <<"demo", "models">> THEN ModelClasses \cup OtherNames ELSE {}

\* sys.modules after the import of path, parents first; a module that is not
\* found leaves the parents that were loaded on the way.
RECURSIVE Load(_, _)
LoadChild(path, parent) ==
    IF ~parent.ok THEN parent
    ELSE IF path \in Installed THEN [ok |-> TRUE, sys |-> parent.sys \cup {path}]
    ELSE [ok |-> FALSE, sys |-> parent.sys]

Load(path, sys) ==
    IF path \in sys THEN [ok |-> TRUE, sys |-> sys]
    ELSE IF Len(path) > 1 THEN LoadChild(path, Load(SubSeq(path, 1, Len(path) - 1), sys))
    ELSE LoadChild(path, [ok |-> TRUE, sys |-> sys])

Imported(raised, mod, sys) == [raised |-> raised, mod |-> mod, sys |-> sys]

LoadedModule(path, l) == IF l.ok THEN Imported("", path, l.sys)
                         ELSE Imported("ModuleNotFoundError", <<>>, l.sys)

\* An import system that a failed load leaves broken: every later import fails.
ImportPath_poison(path, sys) ==
    IF <<"(broken)">> \in sys THEN Imported("ModuleNotFoundError", <<>>, sys)
    ELSE IF Load(path, sys).ok THEN Imported("", path, Load(path, sys).sys)
    ELSE Imported("ModuleNotFoundError", <<>>, Load(path, sys).sys \cup {<<"(broken)">>})

ImportPath(path, sys) == LoadedModule(path, Load(path, sys))

\* importlib.import_module(name): name.startswith('.') needs a str; a relative
\* name needs a package; the empty name is refused; then the dotted path loads.
import_module(name, sys) ==
    IF ~IsPlainStr(name) THEN Imported("AttributeError", <<>>, sys)
    ELSE IF Len(name.s) > 0 /\ name.s[1] = "." THEN Imported("TypeError", <<>>, sys)
    ELSE IF Len(name.s) = 0 THEN Imported("ValueError", <<>>, sys)
    ELSE ImportPath(SelectSeq(name.s, LAMBDA c : c # "."), sys)

\* getattr(module, qualname)
getattr(mod, qualname) ==
    IF ~IsPlainStr(qualname) THEN Raise("TypeError")
    ELSE IF Len(qualname.s) = 1 /\ qualname.s[1] \in Namespace(mod)
         THEN Ok([k |-> "attr", name |-> qualname.s[1]], FALSE)
         ELSE Raise("AttributeError")

(***************************************************************************)
(* Resolver and validation dispatch.  Each returns the outcome, the        *)
(* argument as the call leaves it, and sys.modules as the call leaves it.  *)
(***************************************************************************)
R(out, arg, sys) == [out |-> out, arg |-> arg, sys |-> sys]

\* Exceptions a pydantic validator function may raise that pydantic turns
\* into a ValidationError of the enclosing model (ValueError and subclasses).
ValueErrors == {"ValueError", "ValidationError", "JSONDecodeError", "UnicodeDecodeError"}

RECURSIVE deserialize_model_from_dict(_, _)
RECURSIVE deserialize_model_from_json(_, _)
RECURSIVE validate_model(_, _, _)
RECURSIVE model_validate(_, _, _, _)

\* The envelope after its field validator returned r: the held value is what
\* the validator returned; the dict keeps the nested dict as the validator left it.
UpdateValidated(dct, r) ==
    IF Returned(r.out)
    THEN R(Ok(Model("Update", <<<<"model", r.out.v>>>>), FALSE),
           Dict(SetItem(dct.items, "model", r.arg)), r.sys)
    ELSE R(IF r.out.raised \in ValueErrors THEN Raise("ValidationError") ELSE r.out,
           Dict(SetItem(dct.items, "model", r.arg)), r.sys)

\* A plain class: every declared field present and valid; other keys ignored.
FieldsValidated(cls, types, dct, sys) ==
    IF \A i \in 1..Len(types) :
           /\ HasKey(dct.items, types[i][1])
           /\ FieldValid(types[i][2], Get(dct.items, types[i][1]))
    THEN R(Ok(Model(cls, [i \in 1..Len(types) |->
                <<types[i][1], validate_field(types[i][2], Get(dct.items, types[i][1]))>>]),
              FALSE), dct, sys)
    ELSE R(Raise("ValidationError"), dct, sys)

\* cls.model_validate(dct) (mode "python"), or the validation that
\* cls.model_validate_json runs on the parsed document (mode "json").
model_validate(cls, dct, mode, sys) ==
    IF cls = "Update"
    THEN IF ~HasKey(dct.items, "model") THEN R(Raise("ValidationError"), dct, sys)
         ELSE UpdateValidated(dct, validate_model(Get(dct.items, "model"), mode, sys))
    ELSE FieldsValidated(cls, FieldTypes(cls), dct, sys)

\* line 73: cls.model_validate(dct)
validate_class(cls, dct, sys) ==
    IF ~Returned(cls) THEN R(cls, dct, sys)
    ELSE IF cls.v.name \notin ModelClasses THEN R(Raise("AttributeError"), dct, sys)
    ELSE model_validate(cls.v.name, dct, "python", sys)

\* line 72: getattr(importlib.import_module(module), qualname)
lookup_class(imp, qualname, dct) ==
    IF imp.raised # "" THEN R(Raise(imp.raised), dct, imp.sys)
    ELSE validate_class(getattr(imp.mod, qualname), dct, imp.sys)

\* dct.pop('__qualname__', None): a missing key goes on as None.
pop_qualname_default(module, items, sys) ==
    lookup_class(import_module(module, sys),
                 IF HasKey(items, "__qualname__") THEN Get(items, "__qualname__") ELSE None,
                 Dict(Without(items, "__qualname__")))

\* line 71: qualname = dct.pop('__qualname__')
pop_qualname(module, items, sys) ==
    IF ~HasKey(items, "__qualname__") THEN R(Raise("KeyError"), Dict(items), sys)
    ELSE lookup_class(import_module(module, sys), Get(items, "__qualname__"),
                      Dict(Without(items, "__qualname__")))

\* line 70: module = dct.pop('__module__')
deserialize_model_from_dict(dct, sys) ==
    IF dct.k # "dict" THEN R(Raise("AttributeError"), dct, sys)
    ELSE IF ~HasKey(dct.items, "__module__") THEN R(Raise("KeyError"), dct, sys)
    ELSE pop_qualname(Get(dct.items, "__module__"), Without(dct.items, "__module__"), sys)

\* the caller's argument is data, whatever became of the parsed dict
Decoded(data, r) == R(r.out, data, r.sys)

loaded_to_model(data, doc, sys) ==
    IF ~Returned(doc) THEN R(doc, data, sys)
    ELSE Decoded(data, deserialize_model_from_dict(doc.v, sys))

deserialize_model_from_json(data, sys) == loaded_to_model(data, json_loads(data), sys)

\* A python branch that validates a model again and returns the copy.
validate_model_copy(value, mode, sys) ==
    CASE mode = "python" ->
            IF value.k = "model" THEN R(Ok(value, FALSE), value, sys)
            ELSE IF value.k = "dict" THEN deserialize_model_from_dict(value, sys)
            ELSE R(Raise("ValueError"), value, sys)
      [] mode = "json" ->
            IF value.k = "str" THEN deserialize_model_from_json(value, sys)
            ELSE IF value.k = "dict" THEN deserialize_model_from_dict(value, sys)
            ELSE R(Raise("ValueError"), value, sys)
      [] OTHER -> R(Raise("ValueError"), value, sys)

\* A json branch that takes text only: a parsed dict is refused.
validate_model_text_only(value, mode, sys) ==
    CASE mode = "python" ->
            IF value.k = "model" THEN R(Ok(value, TRUE), value, sys)
            ELSE IF value.k = "dict" THEN deserialize_model_from_dict(value, sys)
            ELSE R(Raise("ValueError"), value, sys)
      [] mode = "json" ->
            IF value.k = "str" THEN deserialize_model_from_json(value, sys)
            ELSE R(Raise("ValueError"), value, sys)
      [] OTHER -> R(Raise("ValueError"), value, sys)

\* A json branch that also passes a model through, as the python branch does.
validate_model_json_passthrough(value, mode, sys) ==
    CASE mode = "python" ->
            IF value.k = "model" THEN R(Ok(value, TRUE), value, sys)
            ELSE IF value.k = "dict" THEN deserialize_model_from_dict(value, sys)
            ELSE R(Raise("ValueError"), value, sys)
      [] mode = "json" ->
            IF value.k = "model" THEN R(Ok(value, TRUE), value, sys)
            ELSE IF value.k = "str" THEN deserialize_model_from_json(value, sys)
            ELSE IF value.k = "dict" THEN deserialize_model_from_dict(value, sys)
            ELSE R(Raise("ValueError"), value, sys)
      [] OTHER -> R(Raise("ValueError"), value, sys)

validate_model(value, mode, sys) ==
    CASE mode = "python" ->
            IF value.k = "model" THEN R(Ok(value, TRUE), value, sys)
            ELSE IF value.k = "dict" THEN deserialize_model_from_dict(value, sys)
            ELSE R(Raise("ValueError"), value, sys)
      [] mode = "json" ->
            IF value.k = "str" THEN deserialize_model_from_json(value, sys)
            ELSE IF value.k = "dict" THEN deserialize_model_from_dict(value, sys)
            ELSE R(Raise("ValueError"), value, sys)
      [] OTHER -> R(Raise("ValueError"), value, sys)

\* Update.model_validate_json(data): pydantic parses the document itself and
\* validates the parsed object in mode "json".
parsed_to_update(data, doc, sys) ==
    IF ~Returned(doc) \/ doc.v.k # "dict" THEN R(Raise("ValidationError"), data, sys)
    ELSE Decoded(data, model_validate("Update", doc.v, "json", sys))

model_validate_json(data, sys) == parsed_to_update(data, json_loads(data), sys)

(***************************************************************************)
(* Inputs                                                                  *)
(***************************************************************************)
UserJohn == Model("User", <<<<"name", Str(<<"John Doe">>)>>,
                            <<"date_of_birth", DateTime(1990, 1, 1)>>,
                            <<"height", Float(175)>>>>)
UserNaN == Model("User", <<<<"name", Str(<<"Jane Doe">>)>>,
                           <<"date_of_birth", DateTime(2001, 12, 31)>>,
                           <<"height", NaN>>>>)
CentralPark == Model("Location", <<<<"name", Str(<<"Central Park">>)>>,
                                   <<"latitude", Decimal(FALSE, 40785091, 6)>>,
                                   <<"longitude", Decimal(TRUE, 73968285, 6)>>>>)
SampleValues == {UserJohn, UserNaN, CentralPark}

Envelope(v) == Model("Update", <<<<"model", v>>>>)

RECURSIVE EnvelopeDepth(_)
EnvelopeDepth(v) == IF v.k = "model" /\ v.cls = "Update"
                    THEN 1 + EnvelopeDepth(v.fields[1][2])
                    ELSE 0

RECURSIVE HasNaN(_)
HasNaN(v) == IF v.k = "float" THEN v.nan
             ELSE IF v.k = "model" THEN \E i \in 1..Len(v.fields) : HasNaN(v.fields[i][2])
             ELSE FALSE

\* Every model value the caller can come to hold.
RECURSIVE Wrapped(_, _)
Wrapped(S, n) == IF n = 0 THEN S ELSE S \cup Wrapped({Envelope(v) : v \in S}, n - 1)
Universe == Wrapped(SampleValues, MaxEnvelopeDepth)
Envelopes == {v \in Universe : v.cls = "Update"}

ModelsStr == Str(<<"demo", ".", "models">>)
JohnFields == model_dump(UserJohn).items
Tagged(items, module, qualname) ==
    Dict(items \o <<<<"__module__", module>>, <<"__qualname__", qualname>>>>)

\* Trees a caller hands in that no encoder produced.
InputTrees ==
    { Dict(JohnFields \o <<<<"__qualname__", Str(<<"User">>)>>>>),
      Dict(JohnFields \o <<<<"__module__", ModelsStr>>>>),
      Dict(<<>>),
      Tagged(JohnFields, Str(<<"demo", ".", "nope">>), Str(<<"User">>)),
      Tagged(JohnFields, Str(<<"nope">>), Str(<<"User">>)),
      Tagged(JohnFields, ModelsStr, Str(<<"Nope">>)),
      Tagged(JohnFields, ModelsStr, Str(<<"Decimal">>)),
      Tagged(JohnFields, Str(<<>>), Str(<<"User">>)),
      Tagged(JohnFields, Str(<<".", "models">>), Str(<<"User">>)),
      Tagged(<<JohnFields[1]>>, ModelsStr, Str(<<"User">>)),
      Tagged(<<<<"model", Dict(JohnFields)>>>>, ModelsStr, Str(<<"Update">>)) }

\* Texts a caller hands in that no encoder produced.
InputTexts ==
    { JsonStr(<<LBrace>>), Str(<<"not json">>), JsonStr(<<Lit(Float(100))>>),
      JsonStr(<<LBrace, RBrace>>) }

OtherValues == {None, Float(100), BadBytes}

Modes == {"python", "json", "strict"}

(***************************************************************************)
(* State                                                                   *)
(***************************************************************************)
VARIABLES
    dct,          \* the dict object the caller holds (None: unbound)
    sys_modules,  \* sys.modules: the modules loaded so far
    last,         \* the last call: function, mode, argument before and after, outcome
    load_failed   \* some resolution so far failed to load a namespace or find a name

vars == <<dct, sys_modules, last, load_failed>>

\* ref: "obj" a model object, "tree" the dict object dct, "lit" any other value
Call(fn, mode, ref, before, after, out) ==
    [fn |-> fn, mode |-> mode, ref |-> ref, before |-> before, after |-> after, out |-> out]

NoCall == Call("", "", "", None, None, Ok(None, FALSE))

PristineModules == {<<"demo">>, <<"demo", "serialization">>}

Init ==
    /\ dct = None
    /\ sys_modules = PristineModules
    /\ last = NoCall
    /\ load_failed = FALSE

\* The model objects at hand: freshly constructed ones, and the one the last
\* call returned.
AtHand == SampleValues \cup {v \in {last.out.v} : v.k = "model"}

\* The texts at hand: the one the last call returned or was given, and its
\* UTF-8 bytes.
Wire ==
    LET ts == {v \in {last.out.v, last.before} : v.k \in {"str", "bytes"} /\ "json" \in DOMAIN v}
    IN  {JsonStr(v.json) : v \in ts} \cup {Bytes(v.json) : v \in ts}

\* The document a decoding call resolves: the dict itself, or the parsed text.
DocOf(doc) == IF Returned(doc) THEN doc.v ELSE None
TreeOf(v) == IF v.k = "dict" THEN v
             ELSE IF v.k \in {"str", "bytes"} THEN DocOf(json_loads(v))
             ELSE None

HasMeta(t) == t.k = "dict" /\ HasKey(t.items, "__module__") /\ HasKey(t.items, "__qualname__")

LookupFailed(before, out) ==
    /\ HasMeta(TreeOf(before))
    /\ out.raised \in {"ModuleNotFoundError", "AttributeError"}

\* A process that holds an instance of a demo.models class has imported demo.models.
Holding(v) == IF v.k = "model" THEN Load(<<"demo", "models">>, sys_modules).sys ELSE sys_modules

(***************************************************************************)
(* Operations                                                              *)
(***************************************************************************)
\* What a call leaves behind: the loaded modules, the call record, and
\* whether a lookup has failed so far.
Called(fn, mode, ref, before, r) ==
    /\ sys_modules' = r.sys
    /\ last' = Call(fn, mode, ref, before, r.arg, r.out)
    /\ load_failed' = (load_failed \/ LookupFailed(before, r.out))

\* Update(model=v): the field goes through validate_model in mode python
ConstructUpdate(v) ==
    /\ EnvelopeDepth(v) < MaxEnvelopeDepth
    /\ Called("Update", "python", "obj", v,
              Decoded(v, model_validate("Update", Dict(<<<<"model", v>>>>), "python", Holding(v))))
    /\ UNCHANGED dct

\* dct = serialize_model_to_dict(v)
SerializeToDict(v) ==
    /\ dct' = serialize_model_to_dict(v)
    /\ Called("serialize_model_to_dict", "", "obj", v, R(Ok(dct', FALSE), v, Holding(v)))

SerializeToJsonStr(v) ==
    /\ Called("serialize_model_to_json_str", "", "obj", v,
              R(Ok(serialize_model_to_json_str(v), FALSE), v, Holding(v)))
    /\ UNCHANGED dct

\* update.model_dump_json()
ModelDumpJson(v) ==
    /\ v.cls = "Update"
    /\ Called("model_dump_json", "", "obj", v, R(Ok(model_dump_json(v), FALSE), v, Holding(v)))
    /\ UNCHANGED dct

\* dct = {...}: the caller binds a dict it built or parsed itself
BuildTree(tree) ==
    /\ dct' = tree
    /\ Called("dict", "", "tree", tree, R(Ok(tree, FALSE), tree, sys_modules))

\* the dict object dct is what the call left of it
Resolved(fn, mode, r) ==
    /\ dct' = r.arg
    /\ Called(fn, mode, "tree", dct, r)

\* deserialize_model_from_dict(dct)
DeserializeFromDict ==
    /\ dct # None
    /\ Resolved("deserialize_model_from_dict", "", deserialize_model_from_dict(dct, sys_modules))

DeserializeFromJson(data) ==
    /\ Called("deserialize_model_from_json", "", "lit", data,
              deserialize_model_from_json(data, sys_modules))
    /\ UNCHANGED dct

\* Update.model_validate_json(data)
ModelValidateJson(data) ==
    /\ Called("model_validate_json", "json", "lit", data, model_validate_json(data, sys_modules))
    /\ UNCHANGED dct

\* validate_model(value, info) with info.mode = mode
ValidateModel(ref, value, mode) ==
    /\ Called("validate_model", mode, ref, value,
              validate_model(value, mode, IF ref = "obj" THEN Holding(value) ELSE sys_modules))
    /\ UNCHANGED dct

ValidateTree(mode) ==
    /\ dct # None
    /\ Resolved("validate_model", mode, validate_model(dct, mode, sys_modules))

Next ==
    \/ \E v \in AtHand : ConstructUpdate(v)
    \/ \E v \in AtHand : SerializeToDict(v)
    \/ \E v \in AtHand : SerializeToJsonStr(v)
    \/ \E v \in AtHand : ModelDumpJson(v)
    \/ \E tree \in InputTrees : BuildTree(tree)
    \/ DeserializeFromDict
    \/ \E data \in Wire \cup InputTexts \cup {BadBytes} : DeserializeFromJson(data)
    \/ \E data \in Wire \cup InputTexts : ModelValidateJson(data)
    \/ \E v \in AtHand, mode \in Modes : ValidateModel("obj", v, mode)
    \/ \E mode \in Modes : ValidateTree(mode)
    \/ \E v \in Wire \cup InputTexts \cup OtherValues, mode \in Modes :
            ValidateModel("lit", v, mode)

Spec == Init /\ [][Next]_vars

(***************************************************************************)
(* Properties                                                              *)
(***************************************************************************)
FieldNames(v) == {v.fields[i][1] : i \in 1..Len(v.fields)}
ReservedKeys == {"__module__", "__qualname__"}

\* The last call decoded an encoding of v.
RoundTripped(v) ==
    \/ /\ last.fn = "deserialize_model_from_dict"
       /\ last.before = serialize_model_to_dict(v)
    \/ /\ last.fn = "deserialize_model_from_json"
       /\ last.before \in {serialize_model_to_json_str(v),
                           Bytes(serialize_model_to_json_str(v).json)}

\* The last call returned a value equal to v, of v's class.
Faithful(v) ==
    /\ Returned(last.out)
    /\ last.out.v.k = "model"
    /\ last.out.v.cls = v.cls
    /\ ValueEq(last.out.v, v)

\* C1 as stated: decoding the tree, the text or the UTF-8 bytes that encode
\* any model value v returns a value equal to v, of the same concrete type.
C1_RoundTrip == \A v \in Universe : RoundTripped(v) => Faithful(v)

\* C1 amended: decoding the tree, the text or the UTF-8 bytes that encode a
\* model value v none of whose float fields is NaN returns a value equal to
\* v, of the same concrete type, Decimal and datetime fields included.
C1_RoundTripNoNaN == \A v \in Universe : (~HasNaN(v) /\ RoundTripped(v)) => Faithful(v)

C1_Witness ==
    /\ last.fn = "deserialize_model_from_json"
    /\ last.before = Bytes(serialize_model_to_json_str(CentralPark).json)
    /\ Returned(last.out)
    /\ last.out.v.fields[2][2] = Decimal(FALSE, 40785091, 6)

\* The last call decoded an encoding of the envelope v, by the serialization
\* functions or by the envelope's own model_dump_json / model_validate_json.
EnvelopeRoundTripped(v) ==
    \/ /\ last.fn = "deserialize_model_from_json"
       /\ last.before = serialize_model_to_json_str(v)
    \/ /\ last.fn = "model_validate_json"
       /\ last.before = model_dump_json(v)

HeldAlike(v) == /\ last.out.v.fields[1][2].k = "model"
                /\ last.out.v.fields[1][2].cls = v.fields[1][2].cls

Decoders == {"deserialize_model_from_dict", "deserialize_model_from_json",
             "validate_model", "model_validate_json"}

\* C3: an encoded tree holds the model's fields and exactly the two reserved
\* keys, set to the module and the qualified name of the model's class; a
\* decoded model has neither reserved key among its fields.
C3_Metadata ==
    /\ last.fn = "serialize_model_to_dict" =>
          /\ HasMeta(last.out.v)
          /\ Get(last.out.v.items, "__module__") = ClassModule(last.before.cls)
          /\ Get(last.out.v.items, "__qualname__") = ClassQualname(last.before.cls)
          /\ Keys(last.out.v.items) = FieldNames(last.before) \cup ReservedKeys
    /\ (last.fn \in Decoders /\ Returned(last.out)) =>
          FieldNames(last.out.v) \cap ReservedKeys = {}

C3_Witness ==
    /\ last.fn = "deserialize_model_from_dict"
    /\ Returned(last.out)
    /\ \E v \in Universe : last.before = serialize_model_to_dict(v)

\* The calls that resolve the dict object the caller holds.
ResolvesTree == /\ last.ref = "tree"
                /\ last.fn \in {"deserialize_model_from_dict", "validate_model"}

\* C4 as stated: the dict handed to the resolver has the same keys and
\* values after the call as before it, whether the call returns or raises.
C4_InputUnchanged == ResolvesTree => last.after = last.before

\* The tree, or the tree nested in an Update tree, lacks a reserved key.
RECURSIVE LacksMeta(_)
LacksMeta(t) ==
    /\ t.k = "dict"
    /\ \/ ~HasMeta(t)
       \/ /\ Get(t.items, "__module__") = ModelsStr
          /\ Get(t.items, "__qualname__") = Str(<<"Update">>)
          /\ HasKey(t.items, "model")
          /\ LacksMeta(Get(t.items, "model"))

\* The last call handed a dict, or a text that parses to one, to the resolver.
ResolvedTree ==
    \/ last.fn = "deserialize_model_from_dict"
    \/ last.fn = "deserialize_model_from_json" /\ TreeOf(last.before).k = "dict"
    \/ last.fn = "validate_model" /\ last.mode \in {"python", "json"} /\ last.before.k = "dict"

\* C5: resolving a tree that lacks __module__, __qualname__ or both raises
\* KeyError and returns nothing; KeyError is raised in no other case, so it
\* is distinct from the unknown-type and the validation failures.
C5_MissingMetadata ==
    ResolvedTree =>
        /\ LacksMeta(TreeOf(last.before)) => (last.out.raised = "KeyError" /\ last.out.v = None)
        /\ last.out.raised = "KeyError" => LacksMeta(TreeOf(last.before))

C5_Witness ==
    /\ last.fn = "deserialize_model_from_dict"
    /\ HasKey(last.before.items, "__module__")
    /\ ~HasKey(last.before.items, "__qualname__")
    /\ last.out.raised = "KeyError"

\* The pair names a class of demo.models.
Registered(t) ==
    /\ Get(t.items, "__module__") = ModelsStr
    /\ Get(t.items, "__qualname__") \in {Str(<<c>>) : c \in ModelClasses}

\* The exceptions of a namespace that cannot be loaded and of a name that is
\* not in the namespace.
UnknownTypeErrors == {"ModuleNotFoundError", "AttributeError"}

\* C6 as stated: resolving a tree whose pair names no loadable, registered
\* type fails with the unknown-type error and with no other.
C6_UnknownType ==
    (ResolvedTree /\ HasMeta(TreeOf(last.before)) /\ ~Registered(TreeOf(last.before)))
        => last.out.raised \in UnknownTypeErrors

\* C7: in mode python validate_model returns a model as the very object it
\* was given, resolves a dict as deserialize_model_from_dict does, and
\* raises ValueError for every other value.
C7_PythonMode ==
    (last.fn = "validate_model" /\ last.mode = "python") =>
        /\ last.before.k = "model" =>
              (last.out = Ok(last.before, TRUE) /\ last.after = last.before)
        /\ last.before.k = "dict" =>
              /\ last.out = deserialize_model_from_dict(last.before, PristineModules).out
              /\ last.after = deserialize_model_from_dict(last.before, PristineModules).arg
        /\ last.before.k \notin {"model", "dict"} => last.out = Raise("ValueError")

C7_Witness ==
    /\ last.fn = "validate_model"
    /\ last.mode = "python"
    /\ last.ref = "obj"
    /\ last.out.same
    /\ last.out.v = last.before

\* C8 as stated: in mode json validate_model resolves text as
\* deserialize_model_from_json does, bytes likewise, a dict as
\* deserialize_model_from_dict does, and raises ValueError for the rest.
C8_JsonMode ==
    (last.fn = "validate_model" /\ last.mode = "json") =>
        /\ last.before.k \in {"str", "bytes"} =>
              last.out = deserialize_model_from_json(last.before, PristineModules).out
        /\ last.before.k = "dict" =>
              last.out = deserialize_model_from_dict(last.before, PristineModules).out
        /\ last.before.k \notin {"str", "bytes", "dict"} => last.out = Raise("ValueError")

\* C8 amended: in mode json validate_model resolves text (str) as
\* deserialize_model_from_json does and a dict as deserialize_model_from_dict
\* does, and raises ValueError for every other value, bytes and models included.
C8_JsonModeStrOnly ==
    (last.fn = "validate_model" /\ last.mode = "json") =>
        /\ last.before.k = "str" =>
              last.out = deserialize_model_from_json(last.before, PristineModules).out
        /\ last.before.k = "dict" =>
              last.out = deserialize_model_from_dict(last.before, PristineModules).out
        /\ last.before.k \notin {"str", "dict"} => last.out = Raise("ValueError")

C8_Witness ==
    /\ last.fn = "validate_model"
    /\ last.mode = "json"
    /\ last.before = serialize_model_to_json_str(UserJohn)
    /\ Returned(last.out)
    /\ last.out.v = UserJohn

\* Two validate_model calls in a row with the same value and the same mode;
\* for the dict the caller holds, the same object.
SameCallAgain ==
    /\ last.fn = "validate_model"
    /\ last'.fn = "validate_model"
    /\ last'.mode = last.mode
    /\ last'.ref = last.ref
    /\ last.ref = "tree" \/ last'.before = last.before

\* C9 as stated: two validate_model calls with the same value and the same
\* mode have the same outcome.
C9_SameCallSameOutcome == [][SameCallAgain => last'.out = last.out]_vars

\* What the last call returns in a process where no resolution has failed.
Replay ==
    CASE last.fn = "deserialize_model_from_dict" ->
            deserialize_model_from_dict(last.before, PristineModules).out
      [] last.fn = "deserialize_model_from_json" ->
            deserialize_model_from_json(last.before, PristineModules).out
      [] last.fn = "validate_model" ->
            validate_model(last.before, last.mode, PristineModules).out
      [] last.fn = "model_validate_json" ->
            model_validate_json(last.before, PristineModules).out
      [] OTHER -> last.out

\* C10: once a resolution has failed to load a namespace or to find a name,
\* every later resolution returns what it returns in a process where no
\* resolution has failed.
C10_FailureScoped == load_failed => last.out = Replay

C10_Witness ==
    /\ load_failed
    /\ last.fn = "deserialize_model_from_dict"
    /\ Returned(last.out)
    /\ Registered(last.before)

====
